---- MODULE Spec2Model ----
(***************************************************************************)
(* A model of package slogf (src/setup.go): the process-wide Logger, the   *)
(* configurator InitLogging and the ten leveled entry points Debug ..      *)
(* Fatalf, together with the parts of log/slog, fmt, runtime and           *)
(* path/filepath that the package's statements invoke.                     *)
(*                                                                         *)
(* Strings the code only copies are TLA+ strings.  Strings the code        *)
(* converts are sequences: the format selector of InitLogging is a         *)
(* sequence of characters (strings.ToLower works on it character by        *)
(* character), a message is a sequence of text chunks in which the chunk   *)
(* "%v" is a formatting verb, and a file path is the sequence of its       *)
(* slash-separated components.  The timestamp of a record is left out:     *)
(* nothing in the package reads it.                                        *)
(***************************************************************************)
EXTENDS Integers, Sequences, FiniteSets, TLC

VARIABLES
    Logger,      \* the package variable Logger: the value last stored in it
    visible,     \* visible[t]: the values of Logger a read by thread t may return
    threads,     \* the threads of the host process that call the package
    frame,       \* frame[t]: the package call thread t is in, or made last
    exitStatus   \* <<>> while the process runs, <<1>> once os.Exit(1) was called

vars == <<Logger, visible, threads, frame, exitStatus>>

----------------------------------------------------------------------------
(* Levels: log/slog's four and the package's fifth.                        *)

LevelDebug == -4
LevelInfo == 0
LevelWarn == 4
LevelError == 8
LevelFatal == 12
\* A threshold a host can give a handler of its own, above LevelFatal.
LevelAboveFatal == LevelFatal + 4

ExitCode == 1

LevelName(base, off) == [base |-> base, off |-> off]

\* slog.Level.String: the name of the nearest built-in level at or below l,
\* and the distance from it when that is not zero ("ERROR+4" for Level(12)).
LevelString(l) ==
    IF l < LevelInfo THEN LevelName("DEBUG", l - LevelDebug)
    ELSE IF l < LevelWarn THEN LevelName("INFO", l - LevelInfo)
    ELSE IF l < LevelError THEN LevelName("WARN", l - LevelWarn)
    ELSE LevelName("ERROR", l - LevelError)

----------------------------------------------------------------------------
(* Values, arguments and formatting.                                       *)

StringValue(s) == [kind |-> "string", s |-> s, i |-> 0]
IntValue(n) == [kind |-> "int", s |-> "", i |-> n]

\* The text fmt's %v verb gives a value.
FormatValue(v) == IF v.kind = "string" THEN v.s ELSE ToString(v.i)

Verb == "%v"

RECURSIVE ExtraArgs(_)
\* The operands fmt.Sprintf did not use, as it reports them: type=value each.
ExtraArgs(args) ==
    IF args = <<>> THEN <<>>
    ELSE <<args[1].kind, "=", FormatValue(args[1])>> \o
         (IF Len(args) > 1 THEN <<", ">> ELSE <<>>) \o ExtraArgs(Tail(args))

RECURSIVE Sprintf(_, _)
\* fmt.Sprintf(format, args...): each verb takes the next operand; a verb with
\* no operand left prints %!v(MISSING); operands left over are reported at the
\* end as %!(EXTRA ...).
Sprintf(format, args) ==
    IF format = <<>>
    THEN IF args = <<>> THEN <<>>
         ELSE <<"%!(EXTRA ">> \o ExtraArgs(args) \o <<")">>
    ELSE IF Head(format) = Verb
         THEN IF args = <<>>
              THEN <<"%!v(MISSING)">> \o Sprintf(Tail(format), args)
              ELSE <<FormatValue(Head(args))>> \o Sprintf(Tail(format), Tail(args))
         ELSE <<Head(format)>> \o Sprintf(Tail(format), args)

BadKey == "!BADKEY"

Attr(k, v) == [key |-> k, value |-> v]

RECURSIVE ArgsToAttrs(_)
\* slog.Record.Add(args...): a string followed by a value is a pair; a last
\* lone string and a value that is no string get the key !BADKEY.
ArgsToAttrs(args) ==
    IF args = <<>> THEN <<>>
    ELSE IF Head(args).kind = "string"
         THEN IF Len(args) = 1
              THEN <<Attr(BadKey, Head(args))>>
              ELSE <<Attr(Head(args).s, args[2])>> \o ArgsToAttrs(Tail(Tail(args)))
         ELSE <<Attr(BadKey, Head(args))>> \o ArgsToAttrs(Tail(args))

----------------------------------------------------------------------------
(* Call stacks, runtime.Callers and filepath.Base.                         *)

StackFrame(fn, file, line) == [function |-> fn, file |-> file, line |-> line]

NoPC == StackFrame("", <<>>, 0)

\* The file the package's own functions are compiled from.
FacadeFile == <<"go", "pkg", "slogf", "setup.go">>

\* runtime.Callers(skip, pcs[:]) with room for one pc.  stack is the call stack
\* at the call of runtime.Callers, innermost frame first: stack[1] is
\* runtime.Callers itself (skip 0), stack[2] the function calling it (skip 1).
Callers(stack, skip) ==
    IF skip + 1 <= Len(stack) THEN stack[skip + 1] ELSE NoPC

\* The variant that skips one frame only: it reports the calling function.
CallerPC_SkipOne(stack) == Callers(stack, 1)

\* pcs[0] after runtime.Callers(2, pcs[:]).
CallerPC(stack) == Callers(stack, 2)

\* filepath.Base on a path given as its components.
Base(path) == IF path = <<>> THEN <<".">> ELSE <<path[Len(path)]>>

----------------------------------------------------------------------------
(* Loggers, the ReplaceAttr function of InitLogging, and rendering.        *)

SourceKey == "source"
LevelKey == "level"

\* A *slog.Logger: the encoding of its handler, the handler's minimum level
\* and whether the handler has InitLogging's ReplaceAttr function.
NewLogger(kind, level, replaceAttr) ==
    [kind |-> kind, level |-> level, replaceAttr |-> replaceAttr]

\* The zero value of the package variable.
NilLogger == NewLogger("nil", 0, FALSE)

\* A level check that does not ask the logger's handler.
Enabled_IgnoresHandler(l, level) == level >= LevelDebug

\* Logger.Enabled(ctx, level): the handler's minimum level decides.
Enabled(l, level) == level >= l.level

LevelValue(l) == [kind |-> "level", level |-> l]
SourceValue(pc) == [kind |-> "source", source |-> pc]

\* The two unchecked type assertions of replace: an attribute with the key
\* "source" whose value is no *slog.Source, or with the key "level" whose
\* value is no slog.Level, panics.
ReplacePanics(a) ==
    \/ a.key = SourceKey /\ a.value.kind # "source"
    \/ a.key = LevelKey /\ a.value.kind # "level"

\* replace without the special case for LevelFatal.
replace_NoFatal(a) ==
    IF a.key = SourceKey
    THEN [a EXCEPT !.value.source.file = Base(@)]
    ELSE a

\* The closure replace of InitLogging, on an attribute it does not panic on.
replace(a) ==
    IF a.key = SourceKey
    THEN [a EXCEPT !.value.source.file = Base(@)]
    ELSE IF a.key = LevelKey /\ a.value.level = LevelFatal
         THEN [a EXCEPT !.value = StringValue("FATAL")]
         ELSE a

\* What the handler does with a built-in attribute before it encodes it.
Rewrite(l, a) == IF l.replaceAttr THEN replace(a) ELSE a

\* The handler's text of a level attribute: a slog.Level by its String method,
\* a string as it is.
LevelText(v) ==
    IF v.kind = "level" THEN LevelString(v.level) ELSE LevelName(v.s, 0)

\* The handler's encoding of a source: file:line as text, an object with
\* function, file and line as JSON.
SourceText(l, src) ==
    IF l.kind = "text"
    THEN StackFrame("", src.file, src.line)
    ELSE StackFrame(src.function, src.file, src.line)

\* Whether Handle panics on record r: the handler calls ReplaceAttr on every
\* attribute of the record, the caller's included.
RenderPanics(l, r) ==
    /\ l.replaceAttr
    /\ \E i \in 1..Len(r.attrs) : ReplacePanics(r.attrs[i])

\* The line Handle writes for record r.
Render(l, r) ==
    [enc |-> l.kind,
     level |-> LevelText(Rewrite(l, Attr(LevelKey, LevelValue(r.level))).value),
     source |-> SourceText(l, Rewrite(l, Attr(SourceKey, SourceValue(r.pc))).value.source),
     msg |-> r.msg,
     attrs |-> r.attrs]

----------------------------------------------------------------------------
(* strings.ToLower and the choice InitLogging makes.                       *)

\* The letters the format selectors below are written with.
ToLowerRune(c) ==
    CASE c = "T" -> "t" [] c = "E" -> "e" [] c = "X" -> "x"
      [] c = "J" -> "j" [] c = "S" -> "s" [] c = "O" -> "o" [] c = "N" -> "n"
      [] OTHER -> c

ToLower(s) == [i \in 1..Len(s) |-> ToLowerRune(s[i])]

TextSelector == <<"t", "e", "x", "t">>

\* InitLogging comparing the selector as written, without strings.ToLower.
Configure_CaseSensitive(debug, format) ==
    IF debug = TRUE
    THEN IF format = TextSelector
         THEN NewLogger("text", LevelDebug, TRUE)
         ELSE NewLogger("json", LevelDebug, TRUE)
    ELSE IF format = TextSelector
         THEN NewLogger("text", LevelInfo, TRUE)
         ELSE NewLogger("json", LevelInfo, TRUE)

\* The logger InitLogging(debug, format) builds: its four branches.
Configure(debug, format) ==
    IF debug = TRUE
    THEN IF ToLower(format) = TextSelector
         THEN NewLogger("text", LevelDebug, TRUE)
         ELSE NewLogger("json", LevelDebug, TRUE)
    ELSE IF ToLower(format) = TextSelector
         THEN NewLogger("text", LevelInfo, TRUE)
         ELSE NewLogger("json", LevelInfo, TRUE)

----------------------------------------------------------------------------
(* The ten entry points: what differs between them.                        *)

PairFunctions == {"Debug", "Info", "Warn", "Error", "Fatal"}
FormatFunctions == {"Debugf", "Infof", "Warnf", "Errorf", "Fatalf"}
EntryPoints == PairFunctions \cup FormatFunctions

\* The level each entry point checks and logs at.
EntryLevel(fn) ==
    CASE fn \in {"Debug", "Debugf"} -> LevelDebug
      [] fn \in {"Info", "Infof"} -> LevelInfo
      [] fn \in {"Warn", "Warnf"} -> LevelWarn
      [] fn \in {"Error", "Errorf"} -> LevelError
      [] fn \in {"Fatal", "Fatalf"} -> LevelFatal

\* The line of each entry point's call of runtime.Callers.
CallersLine(fn) ==
    CASE fn = "Debug" -> 68 [] fn = "Debugf" -> 80
      [] fn = "Info" -> 91 [] fn = "Infof" -> 103
      [] fn = "Warn" -> 114 [] fn = "Warnf" -> 126
      [] fn = "Error" -> 137 [] fn = "Errorf" -> 149
      [] fn = "Fatal" -> 161 [] fn = "Fatalf" -> 174

\* Every entry point calling os.Exit from LevelError up.
CallsExit_FromError(fn) == EntryLevel(fn) >= LevelError

\* The entry points whose last statement is os.Exit(1).
CallsExit(fn) == fn \in {"Fatal", "Fatalf"}

\* Every entry point formatting its first argument.
Message_AlwaysFormatted(fn, format, args) == Sprintf(format, args)

\* The message of the record: the first argument as it is, or
\* fmt.Sprintf(format, args...) in the f functions.
Message(fn, format, args) ==
    IF fn \in FormatFunctions THEN Sprintf(format, args) ELSE format

\* The attributes of the record: r.Add(args...) in the pair functions, none in
\* the f functions.
Attributes(fn, args) ==
    IF fn \in PairFunctions THEN ArgsToAttrs(args) ELSE <<>>

\* The call stack at an entry point's call of runtime.Callers, innermost first.
StackAt(fn, callers) ==
    <<StackFrame("runtime.Callers", <<"go", "src", "runtime", "extern.go">>, 0),
      StackFrame(fn, FacadeFile, CallersLine(fn))>> \o callers

\* slog.NewRecord and what the entry point puts in it.
NewRecord(fn, format, args, callers) ==
    [level |-> EntryLevel(fn),
     msg |-> Message(fn, format, args),
     pc |-> CallerPC(StackAt(fn, callers)),
     attrs |-> Attributes(fn, args)]

----------------------------------------------------------------------------
(* The inputs the host's calls are drawn from.                             *)

Threads == {"main", "worker"}

\* Every spelling of "text" in upper and lower case letters.
TextSpellings ==
    {<<a, b, c, d>> : a \in {"t", "T"}, b \in {"e", "E"},
                      c \in {"x", "X"}, d \in {"t", "T"}}

\* The format selectors a host passes to InitLogging.
Selectors ==
    {<<"t", "e", "x", "t">>, <<"T", "E", "X", "T">>, <<"T", "e", "x", "t">>,
     <<"t", "e", "X", "t">>,
     <<"j", "s", "o", "n">>, <<"J", "S", "O", "N">>, <<"y", "a", "m", "l">>,
     <<>>, <<"t", "x", "t">>, <<"t", "e", "x", "t", " ">>}

Templates == {<<"Value">>, <<"Value: ", Verb>>, <<Verb, ", ", Verb>>}

\* The most key/value pairs a call passes.
MaxPairs == 2

Keys == {"a", "level"}
Values == {IntValue(42), StringValue("high")}

RECURSIVE PairLists(_)
\* The argument lists of at most n key/value pairs.
PairLists(n) ==
    IF n = 0 THEN {<<>>}
    ELSE PairLists(n - 1) \cup
         {<<StringValue(k), v>> \o rest :
             k \in Keys, v \in Values,
             rest \in {l \in PairLists(n - 1) : Len(l) = 2 * (n - 1)}}

\* The argument lists of the calls: lists of pairs, and lists that are not.
ArgLists ==
    PairLists(MaxPairs) \cup
    {<<IntValue(42)>>, <<StringValue("pod")>>, <<StringValue("source"), IntValue(7)>>,
     <<StringValue("a"), IntValue(42), StringValue("b")>>}

\* The inputs of the calls in the specification of several threads.
ConcSelectors == {<<"t", "e", "x", "t">>, <<"j", "s", "o", "n">>}
ConcTemplates == {<<"Value: ", Verb>>}
ConcArgLists == {<<>>, <<StringValue("a"), IntValue(42)>>}
ConcStacks == {<<StackFrame("main.worker", <<"tmp", "slogf", "main.go">>, 30)>>}

\* The stacks of the host at a call of an entry point, innermost frame first.
CallerStacks ==
    {<<StackFrame("main.main", <<"tmp", "slogf", "main.go">>, 13)>>,
     <<StackFrame("main.main", <<"tmp", "slogf", "main.go">>, 14)>>,
     <<StackFrame("util.report", <<"tmp", "slogf", "util", "report.go">>, 14),
       StackFrame("main.main", <<"tmp", "slogf", "main.go">>, 21)>>}

\* The loggers a host can store in the exported variable itself: handlers with
\* a threshold of its own and without InitLogging's ReplaceAttr.
HostLoggers ==
    {NewLogger("json", LevelAboveFatal, FALSE), NewLogger("text", LevelError, FALSE)}

\* The inputs of the calls of one specification.
Inputs ==
    [selectors |-> Selectors, templates |-> Templates,
     args |-> ArgLists, stacks |-> CallerStacks]

ConcInputs ==
    [selectors |-> ConcSelectors, templates |-> ConcTemplates,
     args |-> ConcArgLists, stacks |-> ConcStacks]

----------------------------------------------------------------------------
(* State.                                                                  *)

\* frame[t] before thread t's first call.
\*   pc         "idle"; in a call "enabled" (the level check passed) or
\*              "written" (Handle returned, os.Exit is next); after it
\*              "returned", "panicked" or "exited"
\*   evaluated  the number of argument expressions the caller evaluated
\*   formatted  whether fmt.Sprintf was called
\*   checked    the logger the level check read, rec the record built,
\*   handledBy  the logger whose handler was called, attempts the writes it
\*              made, line what it wrote, ok whether the stream took it
IdleFrame ==
    [pc |-> "idle", fn |-> "", format |-> <<>>, args |-> <<>>, callers |-> <<>>,
     debug |-> FALSE, evaluated |-> 0, formatted |-> FALSE, checked |-> <<>>,
     rec |-> <<>>, handledBy |-> <<>>, attempts |-> 0, line |-> <<>>, ok |-> FALSE]

Init ==
    /\ Logger = NilLogger
    /\ visible = [t \in Threads |-> {NilLogger}]
    /\ threads = {"main"}
    /\ frame = [t \in Threads |-> IdleFrame]
    /\ exitStatus = <<>>

\* A host whose threads all run from the start.
InitConc ==
    /\ Logger = NilLogger
    /\ visible = [t \in Threads |-> {NilLogger}]
    /\ threads = Threads
    /\ frame = [t \in Threads |-> IdleFrame]
    /\ exitStatus = <<>>

\* Thread t is between calls and the process runs.
CanCall(t) ==
    /\ t \in threads
    /\ exitStatus = <<>>
    /\ frame[t].pc = "idle"

\* A store to Logger by thread t: t reads it back; a thread that does not
\* synchronize with t may read it, or any value it could read before.
Store(t, l) ==
    /\ Logger' = l
    /\ visible' = [u \in Threads |->
                      IF u = t THEN {l}
                      ELSE IF u \in threads THEN visible[u] \cup {l}
                      ELSE visible[u]]

----------------------------------------------------------------------------
(* Operations.                                                             *)

\* A call InitLogging(debug, format) with format among the selectors of in.
InitLogging(t, in) ==
    /\ CanCall(t)
    /\ \E debug \in BOOLEAN, format \in in.selectors :
          /\ Store(t, Configure(debug, format))
          /\ frame' = [frame EXCEPT ![t] =
                         [IdleFrame EXCEPT !.pc = "returned", !.fn = "InitLogging",
                                           !.debug = debug, !.format = format]]
    /\ UNCHANGED <<threads, exitStatus>>

\* The host storing a logger of its own in the exported variable.
AssignLogger(t) ==
    /\ CanCall(t)
    /\ \E l \in HostLoggers : Store(t, l)
    /\ UNCHANGED <<threads, frame, exitStatus>>

\* The frame of an entry point after its first statement, the level check on
\* the logger l it read: a nil logger panics, a disabled level returns.
EntryFrame(fn, format, args, callers, l, formatted) ==
    [IdleFrame EXCEPT
        !.fn = fn, !.format = format, !.args = args, !.callers = callers,
        !.evaluated = Len(args),
        !.formatted = formatted,
        !.checked = IF l = NilLogger THEN <<>> ELSE <<l>>,
        !.pc = IF l = NilLogger THEN "panicked"
               ELSE IF Enabled(l, EntryLevel(fn)) THEN "enabled" ELSE "returned"]

\* An entry point that formats its message before it checks the level.
Entered_FormatFirst(fn, format, args, callers, l) ==
    EntryFrame(fn, format, args, callers, l, fn \in FormatFunctions)

\* The check comes first: nothing is formatted before it.
Entered(fn, format, args, callers, l) ==
    EntryFrame(fn, format, args, callers, l, FALSE)

\* A call of entry point fn, with arguments among in, up to its level check.
\* The caller has evaluated the arguments: they are passed by value.
Enter(t, fn, in) ==
    /\ CanCall(t)
    /\ \E format \in in.templates, args \in in.args, callers \in in.stacks,
          l \in visible[t] :
          frame' = [frame EXCEPT ![t] = Entered(fn, format, args, callers, l)]
    /\ UNCHANGED <<Logger, visible, threads, exitStatus>>

Debug(t, in) == t \in Threads /\ Enter(t, "Debug", in)
Debugf(t, in) == t \in Threads /\ Enter(t, "Debugf", in)
Info(t, in) == t \in Threads /\ Enter(t, "Info", in)
Infof(t, in) == t \in Threads /\ Enter(t, "Infof", in)
Warn(t, in) == t \in Threads /\ Enter(t, "Warn", in)
Warnf(t, in) == t \in Threads /\ Enter(t, "Warnf", in)
Error(t, in) == t \in Threads /\ Enter(t, "Error", in)
Errorf(t, in) == t \in Threads /\ Enter(t, "Errorf", in)
Fatal(t, in) == t \in Threads /\ Enter(t, "Fatal", in)
Fatalf(t, in) == t \in Threads /\ Enter(t, "Fatalf", in)

\* The frame after Logger.Handler().Handle on the logger l read for it; ok is
\* whether the output stream takes the write.  The error Handle returns is
\* dropped.
Handled(f, l, ok) ==
    LET r == NewRecord(f.fn, f.format, f.args, f.callers)
        built == [f EXCEPT !.rec = <<r>>, !.formatted = (f.fn \in FormatFunctions)]
    IN  IF l = NilLogger
        THEN [built EXCEPT !.pc = "panicked"]
        ELSE IF RenderPanics(l, r)
        THEN [built EXCEPT !.pc = "panicked", !.handledBy = <<l>>]
        ELSE [built EXCEPT
                 !.handledBy = <<l>>, !.attempts = 1,
                 !.line = <<Render(l, r)>>, !.ok = ok,
                 !.pc = IF CallsExit(f.fn) THEN "written" ELSE "returned"]

\* The rest of an entry point whose level check passed: runtime.Callers,
\* slog.NewRecord, r.Add or fmt.Sprintf, and Handle on a second read of Logger.
Handle(t) ==
    /\ t \in threads
    /\ exitStatus = <<>>
    /\ frame[t].pc = "enabled"
    /\ \E l \in visible[t], ok \in BOOLEAN :
          frame' = [frame EXCEPT ![t] = Handled(frame[t], l, ok)]
    /\ UNCHANGED <<Logger, visible, threads, exitStatus>>

\* os.Exit(1), the last statement of Fatal and Fatalf.
Exit(t) ==
    /\ t \in threads
    /\ exitStatus = <<>>
    /\ frame[t].pc = "written"
    /\ exitStatus' = <<ExitCode>>
    /\ frame' = [frame EXCEPT ![t].pc = "exited"]
    /\ UNCHANGED <<Logger, visible, threads>>

\* The caller goes on after the call returned, or after it recovered from the
\* call's panic: the frame of the call is gone.
Resume(t) ==
    /\ t \in threads
    /\ exitStatus = <<>>
    /\ frame[t].pc \in {"returned", "panicked"}
    /\ frame' = [frame EXCEPT ![t] = IdleFrame]
    /\ UNCHANGED <<Logger, visible, threads, exitStatus>>

Next ==
    \/ \E t \in Threads : InitLogging(t, Inputs)
    \/ \E t \in Threads : Debug(t, Inputs)
    \/ \E t \in Threads : Debugf(t, Inputs)
    \/ \E t \in Threads : Info(t, Inputs)
    \/ \E t \in Threads : Infof(t, Inputs)
    \/ \E t \in Threads : Warn(t, Inputs)
    \/ \E t \in Threads : Warnf(t, Inputs)
    \/ \E t \in Threads : Error(t, Inputs)
    \/ \E t \in Threads : Errorf(t, Inputs)
    \/ \E t \in Threads : Fatal(t, Inputs)
    \/ \E t \in Threads : Fatalf(t, Inputs)
    \/ \E t \in Threads : Handle(t)
    \/ \E t \in Threads : Exit(t)
    \/ \E t \in Threads : Resume(t)

\* The host also stores loggers of its own.
NextHost ==
    \/ Next
    \/ \E t \in Threads : AssignLogger(t)

\* InitLogging on thread main while the other threads call the entry points.
NextConc ==
    \/ InitLogging("main", ConcInputs)
    \/ \E t \in Threads \ {"main"} : Debug(t, ConcInputs)
    \/ \E t \in Threads \ {"main"} : Debugf(t, ConcInputs)
    \/ \E t \in Threads \ {"main"} : Info(t, ConcInputs)
    \/ \E t \in Threads \ {"main"} : Infof(t, ConcInputs)
    \/ \E t \in Threads \ {"main"} : Warn(t, ConcInputs)
    \/ \E t \in Threads \ {"main"} : Warnf(t, ConcInputs)
    \/ \E t \in Threads \ {"main"} : Error(t, ConcInputs)
    \/ \E t \in Threads \ {"main"} : Errorf(t, ConcInputs)
    \/ \E t \in Threads \ {"main"} : Fatal(t, ConcInputs)
    \/ \E t \in Threads \ {"main"} : Fatalf(t, ConcInputs)
    \/ \E t \in Threads \ {"main"} : Handle(t)
    \/ \E t \in Threads \ {"main"} : Exit(t)
    \/ \E t \in Threads : Resume(t)

\* One thread calling InitLogging and the entry points.
Spec == Init /\ [][Next]_vars

\* One thread, and a host that also stores loggers of its own.
SpecHost == Init /\ [][NextHost]_vars

\* InitLogging racing with the entry points, with no synchronization.
SpecConc == InitConc /\ [][NextConc]_vars

----------------------------------------------------------------------------
(* Properties.  Each is a predicate on the frames of the calls: a frame    *)
(* keeps what its call was given, read, built and wrote until the caller   *)
(* goes on.                                                                *)

\* The call of frame f is over.
Over(f) == f.pc \in {"returned", "panicked", "exited"}

\* The name of the severity of each entry point.
SeverityName(fn) ==
    CASE fn \in {"Debug", "Debugf"} -> "DEBUG"
      [] fn \in {"Info", "Infof"} -> "INFO"
      [] fn \in {"Warn", "Warnf"} -> "WARN"
      [] fn \in {"Error", "Errorf"} -> "ERROR"
      [] fn \in {"Fatal", "Fatalf"} -> "FATAL"

\* The rank of a severity name in DEBUG < INFO < WARN < ERROR < FATAL.
Rank(name) ==
    CASE name = "DEBUG" -> 1 [] name = "INFO" -> 2 [] name = "WARN" -> 3
      [] name = "ERROR" -> 4 [] name = "FATAL" -> 5

\* The rank of the threshold InitLogging(debug, ...) is to set.
ThresholdRank(debug) == IF debug THEN Rank("DEBUG") ELSE Rank("INFO")

\* The rank of the threshold of a logger InitLogging made.
LoggerRank(l) == IF l.level = LevelDebug THEN Rank("DEBUG") ELSE Rank("INFO")

\* The call of frame f passed an attribute that replace panics on.
HasReservedKey(f) ==
    /\ f.fn \in PairFunctions
    /\ \E i \in 1..Len(f.args) :
          /\ i % 2 = 1 /\ i < Len(f.args)
          /\ f.args[i].kind = "string" /\ f.args[i].s \in {SourceKey, LevelKey}

\* C1: in a single thread, after an InitLogging(debug, ...) the threshold T is
\* DEBUG when debug is true and INFO when it is false, and every call of an
\* entry point of severity S hands exactly one record to the output stream if
\* S >= T and none otherwise.
C1_ThresholdGating ==
    \A t \in threads :
        LET f == frame[t] IN
        /\ (f.fn = "InitLogging" /\ f.pc = "returned")
              => /\ Logger.level \in {LevelDebug, LevelInfo}
                 /\ LoggerRank(Logger) = ThresholdRank(f.debug)
        /\ (f.fn \in EntryPoints /\ Over(f) /\ Logger # NilLogger)
              => (f.attempts = 1 <=> Rank(SeverityName(f.fn)) >= LoggerRank(Logger))

\* C1 holds of every call that passes no attribute keyed "level" or "source".
C1_ThresholdGating_NoReservedKey ==
    \A t \in threads :
        LET f == frame[t] IN
        /\ (f.fn = "InitLogging" /\ f.pc = "returned")
              => /\ Logger.level \in {LevelDebug, LevelInfo}
                 /\ LoggerRank(Logger) = ThresholdRank(f.debug)
        /\ (f.fn \in EntryPoints /\ Over(f) /\ Logger # NilLogger /\ ~HasReservedKey(f))
              => (f.attempts = 1 <=> Rank(SeverityName(f.fn)) >= LoggerRank(Logger))

\* FATAL was enabled at the level check of the call of frame f.
FatalEnabled(f) ==
    /\ f.fn \in {"Fatal", "Fatalf"}
    /\ f.checked # <<>>
    /\ f.checked[1].level <= LevelFatal

\* C2: a call of Fatal or Fatalf with FATAL enabled attempts the write of its
\* record and then ends the process with status 1, whether or not the write
\* succeeded; it never ends the process before the write attempt and never
\* comes back to its caller.
C2_FatalWritesThenExits ==
    \A t \in threads :
        LET f == frame[t] IN
        FatalEnabled(f) =>
            /\ f.pc \in {"enabled", "written", "exited"}
            /\ f.pc = "enabled" => exitStatus = <<>>
            /\ f.pc = "written" => f.attempts = 1 /\ ENABLED Exit(t)
            /\ f.pc = "exited" => f.attempts = 1 /\ exitStatus = <<1>>

\* C2 holds of every call that passes no attribute keyed "level" or "source".
C2_FatalWritesThenExits_NoReservedKey ==
    \A t \in threads :
        LET f == frame[t] IN
        (FatalEnabled(f) /\ ~HasReservedKey(f)) =>
            /\ f.pc \in {"enabled", "written", "exited"}
            /\ f.pc = "enabled" => exitStatus = <<>>
            /\ f.pc = "written" => f.attempts = 1 /\ ENABLED Exit(t)
            /\ f.pc = "exited" => f.attempts = 1 /\ exitStatus = <<1>>

\* C3: os.Exit is called only by Fatal and Fatalf, after a level check that
\* passed, and with status 1; no other entry point and no InitLogging ends the
\* process, and a Fatal or Fatalf whose logger's threshold is above LevelFatal
\* returns without a record, a write or an exit.
C3_ExitOnlyInEnabledFatal ==
    /\ exitStatus # <<>> =>
          /\ exitStatus = <<1>>
          /\ \E t \in threads : frame[t].pc = "exited"
    /\ \A t \in threads :
          LET f == frame[t] IN
          /\ f.pc \in {"written", "exited"} => FatalEnabled(f)
          /\ (f.fn \in {"Fatal", "Fatalf"} /\ f.checked # <<>>
                /\ f.checked[1].level > LevelFatal)
                => /\ f.pc = "returned"
                   /\ f.rec = <<>> /\ f.attempts = 0
                   /\ exitStatus = <<>>

C3_Witness ==
    \E t \in threads :
        /\ frame[t].fn = "Fatal"
        /\ frame[t].checked = <<NewLogger("json", LevelAboveFatal, FALSE)>>
        /\ frame[t].pc = "returned"

\* The level check of the f function of frame f failed.
SuppressedFormatCall(f) ==
    /\ f.fn \in FormatFunctions
    /\ f.checked # <<>>
    /\ Rank(SeverityName(f.fn)) < LoggerRank(f.checked[1])

\* C4 as claimed: a suppressed f call does no formatting and evaluates none of
\* its argument expressions.
C4_ArgumentsNotEvaluated ==
    \A t \in threads :
        SuppressedFormatCall(frame[t]) =>
            /\ ~frame[t].formatted
            /\ frame[t].evaluated = 0

\* C4 as amended: a suppressed f call returns without calling fmt.Sprintf,
\* building a record or writing; its argument expressions were evaluated by
\* the caller before the call.
C4_NoFormattingWhenSuppressed ==
    \A t \in threads :
        LET f == frame[t] IN
        SuppressedFormatCall(f) =>
            /\ f.pc = "returned"
            /\ ~f.formatted /\ f.rec = <<>> /\ f.attempts = 0
            /\ f.evaluated = Len(f.args)

C4_Witness ==
    \E t \in threads :
        /\ frame[t].fn = "Debugf"
        /\ SuppressedFormatCall(frame[t])
        /\ frame[t].format = <<"Value: ", Verb>>
        /\ frame[t].args = <<IntValue(42)>>
        /\ frame[t].pc = "returned"

\* C5: InitLogging(debug, format) returns, having stored a logger that renders
\* text exactly when format is "text" in some mix of upper and lower case, and
\* JSON for every other format, whatever debug is.
C5_TextIffSpelledText ==
    \A t \in threads :
        LET f == frame[t] IN
        f.fn = "InitLogging" =>
            /\ f.pc = "returned"
            /\ Logger.kind = (IF f.format \in TextSpellings THEN "text" ELSE "json")

C5_Witness ==
    \E t \in threads :
        /\ frame[t].fn = "InitLogging"
        /\ frame[t].format = <<"T", "E", "X", "T">>
        /\ ~frame[t].debug
        /\ Logger.kind = "text"

\* C6: no call of an entry point fails in a way its caller sees, in any state
\* the process can be in, before InitLogging or after it.
C6_EmitterNeverFails ==
    \A t \in threads :
        frame[t].fn \in EntryPoints => frame[t].pc # "panicked"

\* C6 for the calls made after InitLogging: violated as well.
C6_EmitterNeverFails_AfterInitLogging ==
    \A t \in threads :
        (frame[t].fn \in EntryPoints /\ frame[t].checked # <<>>)
            => frame[t].pc # "panicked"

\* A call panics only on a nil Logger or on an attribute keyed "level" or
\* "source"; a failed write never shows.
C6_PanicsOnlyOnNilOrReservedKey ==
    \A t \in threads :
        LET f == frame[t] IN
        (f.fn \in EntryPoints /\ f.pc = "panicked")
            => \/ f.checked = <<>>
               \/ HasReservedKey(f) /\ f.attempts = 0

\* C7: the level field of every line written is the name of the severity of
\* the entry point called, FATAL for Fatal and Fatalf.
C7_LevelNames ==
    \A t \in threads :
        LET f == frame[t] IN
        (f.fn \in EntryPoints /\ f.line # <<>>)
            => f.line[1].level = LevelName(SeverityName(f.fn), 0)

C7_Witness ==
    \E t \in threads :
        /\ frame[t].fn = "Fatalf"
        /\ frame[t].line # <<>>
        /\ frame[t].line[1].enc = "text"
        /\ frame[t].line[1].level = LevelName("FATAL", 0)

\* args is a list of key/value pairs with string keys.
IsPairList(args) ==
    /\ Len(args) % 2 = 0
    /\ \A i \in 1..Len(args) : i % 2 = 1 => args[i].kind = "string"

\* The number of verbs among the first i chunks of format.
VerbsUpTo(format, i) == Cardinality({j \in 1..i : format[j] = Verb})

\* msg is format with its k-th verb replaced by the text of args[k].
IsSubstituted(msg, format, args) ==
    /\ Len(msg) = Len(format)
    /\ \A i \in 1..Len(format) :
          msg[i] = IF format[i] = Verb
                   THEN FormatValue(args[VerbsUpTo(format, i)])
                   ELSE format[i]

\* C8: the record of a pair function has the caller's string as its message
\* and the caller's pairs, in the caller's order, as its attributes; the record
\* of an f function has the substituted template as its message and no
\* attributes.
C8_RecordContents ==
    \A t \in threads :
        LET f == frame[t] IN
        (f.fn \in EntryPoints /\ f.rec # <<>>) =>
            LET r == f.rec[1] IN
            IF f.fn \in PairFunctions
            THEN /\ r.msg = f.format
                 /\ IsPairList(f.args) =>
                       /\ Len(r.attrs) * 2 = Len(f.args)
                       /\ \A i \in 1..Len(r.attrs) :
                             /\ r.attrs[i].key = f.args[2 * i - 1].s
                             /\ r.attrs[i].value = f.args[2 * i]
            ELSE /\ r.attrs = <<>>
                 /\ VerbsUpTo(f.format, Len(f.format)) = Len(f.args)
                       => IsSubstituted(r.msg, f.format, f.args)

C8_Witness ==
    \E t \in threads :
        /\ frame[t].fn = "Info"
        /\ frame[t].format = <<"Value: ", Verb>>
        /\ frame[t].args = <<StringValue("a"), IntValue(42), StringValue("a"), StringValue("high")>>
        /\ frame[t].rec # <<>>
        /\ frame[t].rec[1].msg = <<"Value: ", Verb>>
        /\ frame[t].rec[1].attrs =
              <<Attr("a", IntValue(42)), Attr("a", StringValue("high"))>>

\* C9: the source of a record is the frame of the direct caller of the entry
\* point, never a frame of the package, and the line written names that
\* frame's line and the base name of its file.
C9_SourceIsDirectCaller ==
    \A t \in threads :
        LET f == frame[t] IN
        (f.fn \in EntryPoints /\ f.rec # <<>>) =>
            /\ f.rec[1].pc = f.callers[1]
            /\ f.rec[1].pc.file # FacadeFile
            /\ f.line # <<>> =>
                  /\ f.line[1].source.line = f.callers[1].line
                  /\ f.line[1].source.file =
                        <<f.callers[1].file[Len(f.callers[1].file)]>>

C9_Witness ==
    \E t \in threads :
        /\ frame[t].fn = "Warn"
        /\ Len(frame[t].callers) = 2
        /\ frame[t].line # <<>>
        /\ frame[t].line[1].source = StackFrame("util.report", <<"report.go">>, 14)

\* C10 as claimed: in every interleaving a record is written only by a logger
\* whose threshold admits it, so never a DEBUG record by a logger set to INFO.
C10_RenderedOnlyIfEnabled ==
    \A t \in threads :
        LET f == frame[t] IN
        (f.fn \in EntryPoints /\ f.attempts = 1) =>
            Rank(SeverityName(f.fn)) >= LoggerRank(f.handledBy[1])

\* C10 as amended: a record is written only if the logger its entry point
\* read for the level check admits it; the hand-off reads Logger again and may
\* use a logger that does not.
C10_RenderedOnlyIfCheckedEnabled ==
    \A t \in threads :
        LET f == frame[t] IN
        (f.fn \in EntryPoints /\ f.attempts = 1) =>
            /\ f.checked # <<>>
            /\ Rank(SeverityName(f.fn)) >= LoggerRank(f.checked[1])

C10_Witness ==
    \E t \in threads :
        /\ frame[t].fn = "Debug"
        /\ frame[t].attempts = 1
        /\ frame[t].checked = <<NewLogger("json", LevelDebug, TRUE)>>
        /\ frame[t].handledBy = <<NewLogger("json", LevelInfo, TRUE)>>

====
